---- MODULE Spec2Model ----
(***************************************************************************)
(* Model of the scanner repository's text pipeline:                        *)
(*   crop.go    - page-by-page chapter segmentation (main, processChapter, *)
(*                ensureChapterHeading, isChapterStart, getFirstLine,      *)
(*                cleanText)                                               *)
(*   correct.go - application of LanguageTool matches to a chapter text    *)
(*                (correctWithLanguageTool), and the correction run over   *)
(*                the chapter files (main, checkLanguageTool)              *)
(*                                                                         *)
(* A Go string is modelled as a sequence of one-character strings, one per *)
(* byte: "ab\n" is <<"a", "b", "\n">>.  All inputs are ASCII, so bytes,    *)
(* runes and characters coincide.                                          *)
(***************************************************************************)
EXTENDS Integers, Sequences, FiniteSets, TLC

VARIABLES
    \* crop.go main: position in the run and its local variables
    pc,                \* "start", "crop", "left", "right", "save", "done", "aborted"
    filesLeft,         \* number of entries of pngFiles the loop has not taken yet
    currentChapter,    \* strings.Builder currentChapter
    allCorrectedText,  \* strings.Builder allCorrectedText
    chapterCount,      \* int chapterCount
    chapterFiles,      \* the chapter_%02d.md files written, in the order written:
                       \* ordinal (the number in the name) and text (the content),
                       \* with the history fields buffer and pages
    outputMD,          \* content of outputMDFile, <<>> while not written
    \* history of the run (not program state): what arrived and where it went
    arrived,           \* the page-side appends, in arrival order
    bufPages,          \* arrival positions of the appends now in currentChapter
    writeFailed,       \* TRUE once an os.WriteFile of a chapter has failed
    lastRead,          \* the number of reads tried so far (an image to split,
                       \* a side to OCR) and the outcome of the latest:
                       \* "none", "page", "ocrfail", "cropfail"
    \* a single call of one function: its argument, its result
    arg,
    ret,
    called,
    \* correct.go main: position in the run, the working directory, its locals
    cpc,               \* "idle", "probe", "glob", "loop", "done", "skipped",
                       \* "nofiles", "crashed"
    dir,               \* the working directory: file name |-> content
    files,             \* []string files, after sort.Strings
    fileIdx,           \* position of the range loop in files, from 1
    \* history of the correction run (not program state)
    probe,             \* the answer checkLanguageTool got
    dir0,              \* the working directory when the run began
    log                \* one record per chapter file taken by the loop

vars == <<pc, filesLeft, currentChapter, allCorrectedText, chapterCount,
          chapterFiles, outputMD, arrived, bufPages, writeFailed, lastRead,
          arg, ret, called, cpc, dir, files, fileIdx, probe, dir0, log>>

cropVars == <<pc, filesLeft, currentChapter, allCorrectedText, chapterCount,
              chapterFiles, outputMD, arrived, bufPages, writeFailed, lastRead>>

callVars == <<arg, ret, called>>

correctVars == <<cpc, dir, files, fileIdx, probe, dir0, log>>

----------------------------------------------------------------------------
(* Bounds of the model *)

MaxCleanLen == 7
MaxTailLen == 4
MaxHashes == 7
MaxBodyLen == 3
MaxFiles == 2
MaxTextLen == 3
MaxEdits == 2

----------------------------------------------------------------------------
(* Go's strings package, on sequences of characters *)

NL == "\n"

\* the vertical tab, byte 0x0B ('\v' in Go), written as the byte itself
VT == ""

\* the six ASCII bytes strings.TrimSpace trims: '\t' '\n' '\v' '\f' '\r' ' '
WhiteSpace == {"\t", "\n", VT, "\f", "\r", " "}

Digits == {"0", "1", "2", "3", "4", "5", "6", "7", "8", "9"}

SetMin(S) == CHOOSE x \in S : \A y \in S : x <= y

SetMax(S) == CHOOSE x \in S : \A y \in S : y <= x

\* all sequences over S of length at most n
SeqsUpTo(S, n) == UNION {[1..k -> S] : k \in 0..n}

HasPrefix(s, p) == Len(s) >= Len(p) /\ SubSeq(s, 1, Len(p)) = p

HasSuffix(s, p) == Len(s) >= Len(p) /\ SubSeq(s, Len(s) - Len(p) + 1, Len(s)) = p

TrimPrefix(s, p) == IF HasPrefix(s, p) THEN SubSeq(s, Len(p) + 1, Len(s)) ELSE s

TrimSpace(s) ==
    LET keep == {i \in 1..Len(s) : s[i] \notin WhiteSpace}
    IN  IF keep = {} THEN <<>> ELSE SubSeq(s, SetMin(keep), SetMax(keep))

\* s[i..] starts with old
MatchAt(s, i, old) == i + Len(old) - 1 <= Len(s) /\ SubSeq(s, i, i + Len(old) - 1) = old

Contains(s, old) == \E i \in 1..(Len(s) + 1) : MatchAt(s, i, old)

\* strings.ReplaceAll for a non-empty old: non-overlapping matches, left to right
RECURSIVE ReplaceFrom(_, _, _, _)
ReplaceFrom(s, i, old, new) ==
    IF i > Len(s) THEN <<>>
    ELSE IF MatchAt(s, i, old) THEN new \o ReplaceFrom(s, i + Len(old), old, new)
    ELSE <<s[i]>> \o ReplaceFrom(s, i + 1, old, new)

ReplaceAll(s, old, new) == ReplaceFrom(s, 1, old, new)

\* strings.Split(s, "\n"): the lines of s[start..] given that the line being
\* read began at start and has been read up to i; always at least one line
RECURSIVE SplitFrom(_, _, _)
SplitFrom(s, i, start) ==
    IF i > Len(s) THEN <<SubSeq(s, start, Len(s))>>
    ELSE IF s[i] = NL THEN <<SubSeq(s, start, i - 1)>> \o SplitFrom(s, i + 1, i + 1)
    ELSE SplitFrom(s, i + 1, start)

Split(s) == SplitFrom(s, 1, 1)

\* strings.Join(lines, "\n")
RECURSIVE Join(_)
Join(lines) ==
    IF Len(lines) = 0 THEN <<>>
    ELSE IF Len(lines) = 1 THEN lines[1]
    ELSE lines[1] \o <<NL>> \o Join(Tail(lines))

----------------------------------------------------------------------------
(* crop.go: cleanText *)

\* one pass only: the loop around ReplaceAll is missing
cleanTextOnePass(text) == ReplaceAll(text, <<NL, NL, NL>>, <<NL, NL>>)

\* the loop body replaces three newlines by three newlines: no progress
cleanIterationNoProgress(text) == ReplaceAll(text, <<NL, NL, NL>>, <<NL, NL, NL>>)

\* the loop condition and one execution of the loop body
cleanLoopCondition(text) == Contains(text, <<NL, NL, NL>>)

cleanIteration(text) == ReplaceAll(text, <<NL, NL, NL>>, <<NL, NL>>)

RECURSIVE cleanTextLoop(_)
cleanTextLoop(text) ==
    IF cleanLoopCondition(text)
    THEN cleanTextLoop(cleanIteration(text))
    ELSE text

cleanText(text) == cleanTextLoop(text)

----------------------------------------------------------------------------
(* crop.go: getFirstLine, isChapterStart, ensureChapterHeading *)

ChapterPrefix == <<"C", "h", "a", "p", "t", "e", "r", " ">>

\* index of the first line whose TrimSpace is not "", 0 if there is none
\* (the loops of getFirstLine and of ensureChapterHeading, -1 there)
FirstNonEmptyIdx(lines) ==
    LET nb == {i \in 1..Len(lines) : TrimSpace(lines[i]) # <<>>}
    IN  IF nb = {} THEN 0 ELSE SetMin(nb)

getFirstLine(text) ==
    LET lines == Split(text)
        idx == FirstNonEmptyIdx(lines)
    IN  IF idx = 0 THEN <<>> ELSE TrimSpace(lines[idx])

\* the test len(after) <= 3 is missing
isChapterStartAnyLength(text) ==
    LET firstLine == getFirstLine(text)
        trimmed == TrimSpace(firstLine)
        after == TrimSpace(TrimPrefix(trimmed, ChapterPrefix))
    IN  /\ firstLine # <<>>
        /\ HasPrefix(trimmed, ChapterPrefix)
        /\ Len(after) > 0
        /\ \A i \in 1..Len(after) : after[i] \in Digits

isChapterStart(text) ==
    LET firstLine == getFirstLine(text)
        trimmed == TrimSpace(firstLine)
        after == TrimSpace(TrimPrefix(trimmed, ChapterPrefix))
    IN  IF firstLine = <<>> THEN FALSE
        ELSE IF HasPrefix(trimmed, ChapterPrefix)
        THEN IF Len(after) > 0 /\ Len(after) <= 3
             THEN \A i \in 1..Len(after) : after[i] \in Digits
             ELSE FALSE
        ELSE FALSE

\* only the longest of the three markers is removed (an if/else chain)
StripOneHeadingMarker(firstLine) ==
    TrimSpace(IF HasPrefix(firstLine, <<"#", "#", "#">>) THEN SubSeq(firstLine, 4, Len(firstLine))
              ELSE IF HasPrefix(firstLine, <<"#", "#">>) THEN SubSeq(firstLine, 3, Len(firstLine))
              ELSE TrimPrefix(firstLine, <<"#">>))

\* the three TrimPrefix calls of ensureChapterHeading, one after the other
StripHeadingMarkers(firstLine) ==
    TrimSpace(TrimPrefix(TrimPrefix(TrimPrefix(firstLine,
        <<"#", "#", "#">>), <<"#", "#">>), <<"#">>))

ensureChapterHeading(text, chapterNum) ==
    LET lines == Split(text)
        firstLineIdx == FirstNonEmptyIdx(lines)
    IN  IF firstLineIdx = 0 THEN text
        ELSE LET firstLine == StripHeadingMarkers(TrimSpace(lines[firstLineIdx]))
             IN  Join([lines EXCEPT ![firstLineIdx] = <<"#", " ">> \o firstLine])

----------------------------------------------------------------------------
(* crop.go main is not running while a single function is called *)

CropIdle ==
    /\ pc = "start"
    /\ filesLeft = 0
    /\ currentChapter = <<>>
    /\ allCorrectedText = <<>>
    /\ chapterCount = 0
    /\ chapterFiles = <<>>
    /\ outputMD = <<>>
    /\ arrived = <<>>
    /\ bufPages = <<>>
    /\ writeFailed = FALSE
    /\ lastRead = [n |-> 0, outcome |-> "none"]

CallIdle ==
    /\ arg = <<>>
    /\ ret = <<>>
    /\ called = FALSE

NoProbe == [sent |-> FALSE, failed |-> FALSE, status |-> 0]

CorrectIdle ==
    /\ cpc = "idle"
    /\ dir = <<>>
    /\ files = <<>>
    /\ fileIdx = 0
    /\ probe = NoProbe
    /\ dir0 = <<>>
    /\ log = <<>>

----------------------------------------------------------------------------
(* cleanText called on every string over {newline, a, space} up to MaxCleanLen *)

CleanInputs == SeqsUpTo({NL, "a", " "}, MaxCleanLen)

InitCleanText ==
    /\ arg \in CleanInputs
    /\ ret = <<>>
    /\ called = FALSE
    /\ CropIdle
    /\ CorrectIdle

CallCleanText ==
    /\ ~called
    /\ ret' = cleanText(arg)
    /\ called' = TRUE
    /\ UNCHANGED <<arg, cropVars, correctVars>>

NextCleanText == CallCleanText

SpecCleanText == InitCleanText /\ [][NextCleanText]_vars

(* cleanText run one loop iteration at a time: ret holds the local variable
   text, called becomes TRUE at the return statement *)

InitCleanLoop ==
    /\ arg \in CleanInputs
    /\ ret = arg
    /\ called = FALSE
    /\ CropIdle
    /\ CorrectIdle

CleanIteration ==
    /\ ~called
    /\ cleanLoopCondition(ret)
    /\ ret' = cleanIteration(ret)
    /\ UNCHANGED <<arg, called, cropVars, correctVars>>

CleanReturn ==
    /\ ~called
    /\ ~cleanLoopCondition(ret)
    /\ called' = TRUE
    /\ UNCHANGED <<arg, ret, cropVars, correctVars>>

NextCleanLoop == CleanIteration \/ CleanReturn

\* the function is sequential code: a step that can be taken is taken
SpecCleanLoop ==
    InitCleanLoop /\ [][NextCleanLoop]_vars /\ WF_vars(NextCleanLoop)

\* the characters of s from position i on that are not the third or a later
\* newline of a run
RECURSIVE KeepFrom(_, _)
KeepFrom(s, i) ==
    IF i > Len(s) THEN <<>>
    ELSE IF i >= 3 /\ s[i] = NL /\ s[i - 1] = NL /\ s[i - 2] = NL THEN KeepFrom(s, i + 1)
    ELSE <<s[i]>> \o KeepFrom(s, i + 1)

CollapseRuns(s) == KeepFrom(s, 1)

\* length of the longest run of newlines in s
LongestRun(s) ==
    SetMax({0} \cup {n \in 1..Len(s) :
        \E i \in 1..(Len(s) - n + 1) : \A j \in i..(i + n - 1) : s[j] = NL})

\* C9: cleanText returns its input with every maximal run of three or more
\* newlines replaced by exactly two newlines and every other character kept in
\* place and order, so no run of three or more newlines is left.
C9_CollapsesRuns ==
    called => /\ ret = CollapseRuns(arg)
              /\ LongestRun(ret) <= 2

\* two runs that need more than one pass of ReplaceAll, with text between them
C9_Witness ==
    /\ called
    /\ LongestRun(arg) >= 4
    /\ \E i \in 2..(Len(arg) - 1) : arg[i] = "a" /\ arg[i - 1] = NL /\ arg[i + 1] = NL
    /\ Len(ret) < Len(arg)

\* C10: cleanText is idempotent: cleaning a cleaned text changes nothing.
C10_Idempotent ==
    called => cleanText(ret) = ret

C10_Witness ==
    /\ called
    /\ LongestRun(arg) >= 5
    /\ ret # arg

----------------------------------------------------------------------------
(* isChapterStart called on pages whose first line is near the marker pattern *)

\* text before the first line's content: nothing, blank lines, indentation
\* (a vertical tab included)
ChapterLeads == {<<>>, <<NL>>, <<" ", NL, "\t">>, <<VT>>, <<VT, NL>>}

ChapterHeads ==
    {ChapterPrefix,
     <<"c", "h", "a", "p", "t", "e", "r", " ">>,
     <<"C", "h", "a", "p", "t", "e", "r">>}

ChapterTails == SeqsUpTo({"1", "2", "a", " ", NL}, MaxTailLen)

Page_Chapter12a == ChapterPrefix \o <<"1", "2", "a">>
Page_chapter1 == <<"c", "h", "a", "p", "t", "e", "r", " ", "1">>
Page_Chapter == <<"C", "h", "a", "p", "t", "e", "r">>
Page_Chapter12Storm == ChapterPrefix \o <<"1", "2", ":", " ", "S", "t", "o", "r", "m">>
Page_Chapter1234 == ChapterPrefix \o <<"1", "2", "1", "2">>

ChapterInputs ==
    {l \o h \o t : l \in ChapterLeads, h \in ChapterHeads, t \in ChapterTails}
    \cup {Page_Chapter12Storm, <<"\t", " ">>, <<"x", NL>> \o ChapterPrefix \o <<"1">>,
          ChapterPrefix \o <<"1", VT>>, <<VT>>, <<NL, VT, NL, " ">>}

InitChapterStart ==
    /\ arg \in ChapterInputs
    /\ ret = <<>>
    /\ called = FALSE
    /\ CropIdle
    /\ CorrectIdle

CallIsChapterStart ==
    /\ ~called
    /\ ret' = isChapterStart(arg)
    /\ called' = TRUE
    /\ UNCHANGED <<arg, cropVars, correctVars>>

NextChapterStart == CallIsChapterStart

SpecChapterStart == InitChapterStart /\ [][NextChapterStart]_vars

\* The marker pattern as the specification words it, located from the first
\* character of the page that is not white space: the line around it, cut at
\* the last such character of that line.
MarkerPattern(page) ==
    LET ink == {i \in 1..Len(page) : page[i] \notin WhiteSpace}
    IN  /\ ink # {}
        /\ LET first == SetMin(ink)
               eol == SetMin({i \in first..Len(page) : page[i] = NL} \cup {Len(page) + 1})
               last == SetMax({i \in ink : i < eol})
               line == SubSeq(page, first, last)
               rest == TrimSpace(SubSeq(line, Len(ChapterPrefix) + 1, Len(line)))
           IN  /\ Len(line) >= Len(ChapterPrefix)
               /\ \A i \in 1..Len(ChapterPrefix) : line[i] = ChapterPrefix[i]
               /\ Len(rest) \in 1..3
               /\ \A i \in 1..Len(rest) : rest[i] \in Digits

NearMisses ==
    {Page_Chapter12a, Page_chapter1, Page_Chapter, Page_Chapter12Storm,
     Page_Chapter1234, <<>>, <<"\t", " ">>, <<NL>>}

\* C5: isChapterStart(page) holds exactly when the first non-blank line of the
\* page, trimmed, starts with "Chapter " and the trimmed remainder is one to
\* three ASCII digits; "Chapter 12a", "chapter 1", "Chapter", "Chapter 12: Storm",
\* a four-digit number and a page without a non-blank line are not markers.
C5_MarkerIffPattern ==
    called => /\ ret = MarkerPattern(arg)
              /\ arg \in NearMisses => ret = FALSE

\* a marker found on a later line, after blank lines, with a padded number
C5_Witness ==
    /\ called
    /\ ret = TRUE
    /\ arg = <<" ", NL, "\t">> \o ChapterPrefix \o <<" ", "1", "2", NL>>

----------------------------------------------------------------------------
(* ensureChapterHeading called on buffers whose first line carries 0..MaxHashes
   heading markers *)

Hashes(k) == [i \in 1..k |-> "#"]

HeadingLeads == {<<>>, <<NL>>, <<" ">>, <<" ", NL, " ">>, <<VT>>, <<VT, NL>>}

HeadingBodies == SeqsUpTo({"#", " ", "x", NL}, MaxBodyLen)

HeadingInputs ==
    {l \o Hashes(k) \o b : l \in HeadingLeads, k \in 0..MaxHashes, b \in HeadingBodies}
    \cup {<<"#", VT, "x">>, <<"#", "#", VT>>}

InitHeading ==
    /\ arg \in HeadingInputs
    /\ ret = <<>>
    /\ called = FALSE
    /\ CropIdle
    /\ CorrectIdle

CallEnsureChapterHeading ==
    /\ ~called
    /\ ret' = ensureChapterHeading(arg, 1)
    /\ called' = TRUE
    /\ UNCHANGED <<arg, cropVars, correctVars>>

NextHeading == CallEnsureChapterHeading

SpecHeading == InitHeading /\ [][NextHeading]_vars

\* number of '#' characters s starts with
LeadingHashes(s) ==
    SetMax({n \in 0..Len(s) : \A i \in 1..n : s[i] = "#"})

IsBlank(line) == \A i \in 1..Len(line) : line[i] \in WhiteSpace

\* out is in with nothing changed but its first non-blank line, which has lost
\* its surrounding white space and k leading '#', k allowed by strip(h) for a
\* line of h leading '#', and has become "# " followed by what is left, trimmed
HeadingRewritten(in, out, strip(_)) ==
    LET inL == Split(in)
        outL == Split(out)
        nb == {i \in 1..Len(inL) : ~IsBlank(inL[i])}
    IN  IF nb = {} THEN out = in
        ELSE LET i == SetMin(nb)
                 t == TrimSpace(inL[i])
             IN  /\ Len(outL) = Len(inL)
                 /\ \A j \in 1..Len(inL) : j # i => outL[j] = inL[j]
                 /\ \E k \in strip(LeadingHashes(t)) :
                       outL[i] = <<"#", " ">> \o TrimSpace(SubSeq(t, k + 1, Len(t)))

UpToThree(h) == 0..(IF h < 3 THEN h ELSE 3)

AllUpToSix(h) == {IF h < 6 THEN h ELSE 6}

\* C8 as stated: heading normalization rewrites only the first non-blank line,
\* removing at most three leading '#' and the surrounding white space and
\* putting "# " in front; all other lines and the line count are unchanged, and
\* a buffer without a non-blank line is returned unchanged.
C8_StripsAtMostThree ==
    called => HeadingRewritten(arg, ret, UpToThree)

\* C8 amended: as above, but the line loses all of its leading '#' up to six
\* (a leading "###", then a leading "##", then a leading "#").
C8_StripsUpToSix ==
    called => HeadingRewritten(arg, ret, AllUpToSix)

\* a second line is present and the heading line carries five markers
C8_Witness ==
    /\ called
    /\ arg = <<NL>> \o Hashes(5) \o <<" ", "x", NL>>
    /\ ret = <<NL, "#", " ", "x", NL>>

----------------------------------------------------------------------------
(* crop.go: main and its closure processChapter *)

\* what OCR may return for a page side
Page_Intro == <<"I", "n", "t", "r", "o", " ", "t", "e", "x", "t">>
Page_Chapter1 == ChapterPrefix \o <<"1", NL, "B", "o", "d", "y", " ", "A">>
Page_Chapter2 == <<VT>> \o ChapterPrefix \o <<"2", NL, "B", "o", "d", "y", " ", "B">>
Page_TrailingBlank == <<"x", NL, NL, NL, NL>>
Page_LeadingBlank == <<NL, NL, "#", "#", " ", "T">>

PageTexts ==
    {Page_Intro, Page_Chapter1, Page_Chapter2, Page_TrailingBlank,
     Page_LeadingBlank, Page_Chapter12a}

\* "\n\n---\n\n"
Separator == <<NL, NL, "-", "-", "-", NL, NL>>

\* The state processChapter leaves, and whether it returned an error.  ok says
\* whether os.WriteFile succeeds.
ProcessChapterWith(ok, count, reset) ==
    IF Len(currentChapter) = 0
    THEN [count |-> chapterCount, files |-> chapterFiles, all |-> allCorrectedText,
          buf |-> currentChapter, pages |-> bufPages, err |-> FALSE]
    ELSE LET chapterText == ensureChapterHeading(currentChapter, count)
         IN  IF ~ok
             THEN [count |-> count, files |-> chapterFiles, all |-> allCorrectedText,
                   buf |-> currentChapter, pages |-> bufPages, err |-> TRUE]
             ELSE [count |-> count,
                   files |-> Append(chapterFiles,
                                    [ordinal |-> count, text |-> chapterText,
                                     buffer |-> currentChapter, pages |-> bufPages]),
                   all |-> allCorrectedText \o chapterText \o Separator,
                   buf |-> IF reset THEN <<>> ELSE currentChapter,
                   pages |-> IF reset THEN <<>> ELSE bufPages,
                   err |-> FALSE]

\* chapterCount++ is missing
processChapterNoIncrement(ok) == ProcessChapterWith(ok, chapterCount, TRUE)

\* currentChapter.Reset() is missing
processChapterNoReset(ok) == ProcessChapterWith(ok, chapterCount + 1, FALSE)

processChapter(ok) == ProcessChapterWith(ok, chapterCount + 1, TRUE)

\* the call after the loop is missing: nothing is flushed
processLastChapterSkipped(ok) ==
    [count |-> chapterCount, files |-> chapterFiles, all |-> allCorrectedText,
     buf |-> currentChapter, pages |-> bufPages, err |-> FALSE]

\* lines 176-177: processChapter called once more after the loop
processLastChapter(ok) == processChapter(ok)

\* the chapter-start branch (lines 132-140) is missing: every page is added to
\* the open buffer and nothing is emitted before the end
AddPageNoBoundary(text, ok, next) ==
    LET t == cleanText(text)
    IN  /\ pc' = next
        /\ currentChapter' =
               currentChapter \o t \o (IF HasSuffix(t, <<NL>>) THEN <<>> ELSE <<NL>>)
        /\ arrived' = Append(arrived, text)
        /\ bufPages' = Append(bufPages, Len(arrived) + 1)
        /\ lastRead' = [n |-> lastRead.n + 1, outcome |-> "page"]
        /\ UNCHANGED <<chapterCount, chapterFiles, allCorrectedText, writeFailed,
                       filesLeft, outputMD, callVars, correctVars>>

\* One page side whose OCR returned text: lines 129-146 and 155-172.
AddPage(text, ok, next) ==
    LET t == cleanText(text)
        r == IF isChapterStart(t) THEN processChapter(ok)
             ELSE [count |-> chapterCount, files |-> chapterFiles,
                   all |-> allCorrectedText, buf |-> currentChapter,
                   pages |-> bufPages, err |-> FALSE]
    IN  /\ chapterCount' = r.count
        /\ chapterFiles' = r.files
        /\ allCorrectedText' = r.all
        /\ IF r.err
           THEN /\ pc' = "aborted"
                /\ writeFailed' = TRUE
                /\ lastRead' = [n |-> lastRead.n + 1, outcome |-> "page"]
                /\ UNCHANGED <<currentChapter, bufPages, arrived>>
           ELSE /\ pc' = next
                /\ currentChapter' =
                       r.buf \o t \o (IF HasSuffix(t, <<NL>>) THEN <<>> ELSE <<NL>>)
                /\ arrived' = Append(arrived, text)
                /\ bufPages' = Append(r.pages, Len(arrived) + 1)
                /\ lastRead' = [n |-> lastRead.n + 1, outcome |-> "page"]
                /\ UNCHANGED writeFailed
        /\ UNCHANGED <<filesLeft, outputMD, callVars, correctVars>>

Init ==
    /\ pc = "start"
    /\ filesLeft \in 0..MaxFiles
    /\ currentChapter = <<>>
    /\ allCorrectedText = <<>>
    /\ chapterCount = 0
    /\ chapterFiles = <<>>
    /\ outputMD = <<>>
    /\ arrived = <<>>
    /\ bufPages = <<>>
    /\ writeFailed = FALSE
    /\ lastRead = [n |-> 0, outcome |-> "none"]
    /\ CallIdle
    /\ CorrectIdle

\* lines 42-76: os.MkdirAll and os.ReadDir succeed
Startup ==
    /\ pc = "start"
    /\ pc' = "crop"
    /\ UNCHANGED <<filesLeft, currentChapter, allCorrectedText, chapterCount,
                   chapterFiles, outputMD, arrived, bufPages, writeFailed, lastRead,
                   callVars, correctVars>>

\* lines 43-53: os.MkdirAll or os.ReadDir fails and main returns
StartupFails ==
    /\ pc = "start"
    /\ pc' = "aborted"
    /\ UNCHANGED <<filesLeft, currentChapter, allCorrectedText, chapterCount,
                   chapterFiles, outputMD, arrived, bufPages, writeFailed, lastRead,
                   callVars, correctVars>>

\* lines 109-118: the next file is cropped and split
CropAndSplit ==
    /\ pc = "crop"
    /\ filesLeft > 0
    /\ filesLeft' = filesLeft - 1
    /\ pc' = "left"
    /\ UNCHANGED <<currentChapter, allCorrectedText, chapterCount, chapterFiles,
                   outputMD, arrived, bufPages, writeFailed, lastRead,
                   callVars, correctVars>>

\* lines 118-121: cropAndSplitImage fails, the loop continues with the next file
CropAndSplitFails ==
    /\ pc = "crop"
    /\ filesLeft > 0
    /\ filesLeft' = filesLeft - 1
    /\ pc' = "crop"
    /\ lastRead' = [n |-> lastRead.n + 1, outcome |-> "cropfail"]
    /\ UNCHANGED <<currentChapter, allCorrectedText, chapterCount, chapterFiles,
                   outputMD, arrived, bufPages, writeFailed,
                   callVars, correctVars>>

\* lines 124-147
LeftPage ==
    /\ pc = "left"
    /\ \E text \in PageTexts, ok \in BOOLEAN : AddPage(text, ok, "right")

\* the failed left side ends the iteration: the right side is not read
LeftOcrFailsSkipsRight ==
    /\ pc = "left"
    /\ pc' = "crop"
    /\ lastRead' = [n |-> lastRead.n + 1, outcome |-> "ocrfail"]
    /\ UNCHANGED <<filesLeft, currentChapter, allCorrectedText, chapterCount,
                   chapterFiles, outputMD, arrived, bufPages, writeFailed,
                   callVars, correctVars>>

\* lines 126-127
LeftOcrFails ==
    /\ pc = "left"
    /\ pc' = "right"
    /\ lastRead' = [n |-> lastRead.n + 1, outcome |-> "ocrfail"]
    /\ UNCHANGED <<filesLeft, currentChapter, allCorrectedText, chapterCount,
                   chapterFiles, outputMD, arrived, bufPages, writeFailed,
                   callVars, correctVars>>

\* lines 150-173
RightPage ==
    /\ pc = "right"
    /\ \E text \in PageTexts, ok \in BOOLEAN : AddPage(text, ok, "crop")

\* lines 152-153
RightOcrFails ==
    /\ pc = "right"
    /\ pc' = "crop"
    /\ lastRead' = [n |-> lastRead.n + 1, outcome |-> "ocrfail"]
    /\ UNCHANGED <<filesLeft, currentChapter, allCorrectedText, chapterCount,
                   chapterFiles, outputMD, arrived, bufPages, writeFailed,
                   callVars, correctVars>>

\* lines 176-180: the last chapter, after the loop
FinalFlush ==
    /\ pc = "crop"
    /\ filesLeft = 0
    /\ \E ok \in BOOLEAN :
         LET r == processLastChapter(ok)
         IN  /\ chapterCount' = r.count
             /\ chapterFiles' = r.files
             /\ allCorrectedText' = r.all
             /\ currentChapter' = r.buf
             /\ bufPages' = r.pages
             /\ pc' = IF r.err THEN "aborted" ELSE "save"
             /\ writeFailed' = (writeFailed \/ r.err)
    /\ UNCHANGED <<filesLeft, outputMD, arrived, lastRead, callVars, correctVars>>

\* lines 182-191: the combined file; a failed write leaves it unwritten
SaveOutput ==
    /\ pc = "save"
    /\ \E ok \in BOOLEAN : outputMD' = IF ok THEN allCorrectedText ELSE outputMD
    /\ pc' = "done"
    /\ UNCHANGED <<filesLeft, currentChapter, allCorrectedText, chapterCount,
                   chapterFiles, arrived, bufPages, writeFailed, lastRead,
                   callVars, correctVars>>

Next ==
    \/ Startup
    \/ StartupFails
    \/ CropAndSplit
    \/ CropAndSplitFails
    \/ LeftPage
    \/ LeftOcrFails
    \/ RightPage
    \/ RightOcrFails
    \/ FinalFlush
    \/ SaveOutput

Spec == Init /\ [][Next]_vars

----------------------------------------------------------------------------
(* Claims about segmentation *)

\* main has passed the final processChapter without an error
Flushed == pc \in {"save", "done"}

\* what a page side adds to the buffer: its text with newline runs collapsed,
\* ended by a newline
PageAppend(text) ==
    LET c == CollapseRuns(text)
    IN  IF Len(c) > 0 /\ c[Len(c)] = NL THEN c ELSE c \o <<NL>>

IsMarker(text) == MarkerPattern(CollapseRuns(text))

\* both, tabulated for the page texts
AppendOf == [t \in PageTexts |-> PageAppend(t)]

MarkerOf == [t \in PageTexts |-> IsMarker(t)]

MarkerPositions == {i \in 1..Len(arrived) : MarkerOf[arrived[i]]}

RECURSIVE ConcatAll(_)
ConcatAll(ss) == IF Len(ss) = 0 THEN <<>> ELSE Head(ss) \o ConcatAll(Tail(ss))

Buffers == [i \in 1..Len(chapterFiles) |-> chapterFiles[i].buffer]

Appends == [i \in 1..Len(arrived) |-> AppendOf[arrived[i]]]

OrdinalsInEmissionOrder ==
    \A i \in 1..Len(chapterFiles) : chapterFiles[i].ordinal = i

PagesInArrivalOrder ==
    \A i, j \in 1..Len(chapterFiles) :
        i < j => \A p \in 1..Len(chapterFiles[i].pages), q \in 1..Len(chapterFiles[j].pages) :
                     chapterFiles[i].pages[p] < chapterFiles[j].pages[q]

\* C3 as stated: documents are emitted with ordinals 1, 2, 3, ..., the ordinal
\* counter always equals the number of documents emitted, and the pages of a
\* lower-ordinal document arrived before those of a higher-ordinal one.
C3_CounterEqualsEmitted ==
    /\ OrdinalsInEmissionOrder
    /\ chapterCount = Len(chapterFiles)
    /\ PagesInArrivalOrder

\* C3 amended: as above, but the counter is one ahead of the number of emitted
\* documents after a failed artifact write, which has taken an ordinal and has
\* ended the run.
C3_OrdinalsAndArrivalOrder ==
    /\ OrdinalsInEmissionOrder
    /\ chapterCount = Len(chapterFiles) + (IF writeFailed THEN 1 ELSE 0)
    /\ PagesInArrivalOrder

C3_Witness ==
    /\ Flushed
    /\ Len(chapterFiles) = 3
    /\ \E i \in 1..3 : Len(chapterFiles[i].pages) = 2

IntroStream == <<Page_Intro, Page_Chapter1, Page_Chapter2>>

\* C4 as stated: pages before the first marker share document 1 with the first
\* marker page; the stream [Intro, Chapter 1, Chapter 2] gives two documents,
\* ordinals 1 and 2; with at least one marker there are as many documents as
\* marker pages.
C4_IntroJoinsFirstChapter ==
    (Flushed /\ MarkerPositions # {}) =>
        /\ Len(chapterFiles) = Cardinality(MarkerPositions)
        /\ \A p \in 1..SetMin(MarkerPositions) :
               \E q \in 1..Len(chapterFiles[1].pages) : chapterFiles[1].pages[q] = p
        /\ arrived = IntroStream =>
               /\ [i \in 1..Len(chapterFiles) |-> chapterFiles[i].ordinal] = <<1, 2>>
               /\ chapterFiles[1].buffer = PageAppend(Page_Intro) \o PageAppend(Page_Chapter1)

\* C4 amended: pages before the first marker are emitted as document 1 on their
\* own when the first marker arrives, and the first marker page opens the next
\* document; the stream [Intro, Chapter 1, Chapter 2] gives three documents,
\* ordinals 1, 2, 3, one page each; with at least one marker and every write
\* succeeding there are as many documents as marker pages when the first page is
\* a marker, and one more otherwise.
C4_IntroIsOwnDocument ==
    (Flushed /\ MarkerPositions # {}) =>
        LET first == SetMin(MarkerPositions)
        IN  /\ Len(chapterFiles) =
                   Cardinality(MarkerPositions) + (IF first = 1 THEN 0 ELSE 1)
            /\ first > 1 =>
                   /\ chapterFiles[1].pages = [p \in 1..(first - 1) |-> p]
                   /\ Head(chapterFiles[2].pages) = first
            /\ arrived = IntroStream =>
                   /\ [i \in 1..Len(chapterFiles) |-> chapterFiles[i].ordinal] = <<1, 2, 3>>
                   /\ Buffers = <<PageAppend(Page_Intro), PageAppend(Page_Chapter1),
                                  PageAppend(Page_Chapter2)>>

C4_Witness ==
    /\ Flushed
    /\ arrived = IntroStream
    /\ Len(chapterFiles) = 3

\* C6 as stated: a stream without a marker gives exactly one document, ordinal
\* 1, holding all pages in arrival order.
C6_OneDocumentWithoutMarker ==
    (Flushed /\ MarkerPositions = {}) =>
        /\ Len(chapterFiles) = 1
        /\ chapterFiles[1].ordinal = 1
        /\ chapterFiles[1].buffer = ConcatAll(Appends)

\* C6 amended: a stream of at least one page without a marker gives, when the
\* artifact write succeeds, exactly one document, ordinal 1, holding all pages
\* in arrival order; an empty stream gives no document.
C6_OneDocumentIfAnyPage ==
    (Flushed /\ MarkerPositions = {}) =>
        IF arrived = <<>> THEN chapterFiles = <<>>
        ELSE /\ Len(chapterFiles) = 1
             /\ chapterFiles[1].ordinal = 1
             /\ chapterFiles[1].buffer = ConcatAll(Appends)
             /\ chapterFiles[1].pages = [p \in 1..Len(arrived) |-> p]

C6_Witness ==
    /\ Flushed
    /\ arrived = <<Page_Intro, Page_Chapter12a, Page_TrailingBlank, Page_LeadingBlank>>
    /\ Len(chapterFiles) = 1

\* C7: once the stream is exhausted and the final flush has run with every write
\* succeeding, the open buffer is empty and the emitted documents' buffers, in
\* ordinal order, concatenate to the page appends in arrival order: every page
\* is in exactly one document.
C7_NothingLostOrDuplicated ==
    Flushed =>
        /\ currentChapter = <<>>
        /\ ConcatAll(Buffers) = ConcatAll(Appends)
        /\ ConcatAll([i \in 1..Len(chapterFiles) |-> chapterFiles[i].pages])
               = [p \in 1..Len(arrived) |-> p]

C7_Witness ==
    /\ pc = "done"
    /\ Len(arrived) = 4
    /\ Len(chapterFiles) = 2
    /\ Page_TrailingBlank = arrived[2]

----------------------------------------------------------------------------
(* correct.go: correctWithLanguageTool from line 140 on, the application of
   the matches of a decoded response to the text.  A match is a record
   [offset, length, replacements], replacements the sequence of the candidates'
   values. *)

\* the comparison function handed to sort.Slice (line 146); with descending
\* FALSE, the comparison the wrong way round
OffsetLess(a, b, descending) ==
    IF descending THEN a.offset > b.offset ELSE a.offset < b.offset

\* the elements of data at the indices from..to-1 (counted from 0) moved up by
\* one and the element at to put at from
MoveDown(data, from, to) ==
    LET moved == [k \in 1..Len(data) |->
                     IF k = from + 1 THEN data[to + 1]
                     ELSE IF from + 1 < k /\ k <= to + 1 THEN data[k - 1]
                     ELSE data[k]]
    IN  SubSeq(moved, 1, Len(data))

\* insertion of data[j] into the sorted data[1..j-1], as insertionSort does it:
\* for ; j > a && less(j, j-1); j-- { swap(j, j-1) }.  The element is swapped
\* down, past every element it is less than, to the first place where the
\* element before it is not one.
SinkDown(data, j, descending) ==
    LET stop == SetMax({k \in 1..j :
                           k = 1 \/ ~OffsetLess(data[j], data[k - 1], descending)})
    IN  MoveDown(data, stop - 1, j - 1)

RECURSIVE InsertionSort(_, _, _)
InsertionSort(data, i, descending) ==
    IF i > Len(data) THEN data
    ELSE InsertionSort(SinkDown(data, i, descending), i + 1, descending)

\* ascending offsets: the comparison is the wrong way round
sortMatchesAscending(matches) == InsertionSort(matches, 2, FALSE)

(* sort.Slice: the sort package's pattern-defeating quicksort (pdqsort_func),
   called with limit = bits.Len(length).  Indices are the library's, counted
   from 0; Less is the comparison of lines 145-147. *)

\* length up to which a slice is sorted by insertion
maxInsertion == 12

\* the shortest slice that is partitioned before it is insertion-sorted
FirstPartitionedLen == maxInsertion + 1

\* choosePivot: length from which the pivot is a median of medians, and the
\* number of swaps that marks a slice as probably descending
shortestNinther == 50

maxSwaps == 4 * 3

\* partialInsertionSort: number of out-of-order pairs it repairs, and the
\* length from which it repairs any
maxSteps == 5

shortestShifting == 50

\* sortedHint
unknownHint == 0

increasingHint == 1

decreasingHint == 2

Less(data, i, j) == OffsetLess(data[i + 1], data[j + 1], TRUE)

\* data with the elements at i and j exchanged (written out as a sequence)
Swap(data, i, j) ==
    LET swapped == [k \in 1..Len(data) |-> IF k = i + 1 THEN data[j + 1]
                                           ELSE IF k = j + 1 THEN data[i + 1]
                                           ELSE data[k]]
    IN  SubSeq(swapped, 1, Len(data))

\* insertion sort of data[a..b-1]
insertionSortRange(data, a, b) ==
    SubSeq(data, 1, a) \o InsertionSort(SubSeq(data, a + 1, b), 2, TRUE)
                      \o SubSeq(data, b + 1, Len(data))

\* the heap property on data[first+lo..first+hi-1], from the root lo down
RECURSIVE siftDown(_, _, _, _)
siftDown(data, lo, hi, first) ==
    LET child == 2 * lo + 1
    IN  IF child >= hi THEN data
        ELSE LET c == IF child + 1 < hi /\ Less(data, first + child, first + child + 1)
                      THEN child + 1 ELSE child
             IN  IF ~Less(data, first + lo, first + c) THEN data
                 ELSE siftDown(Swap(data, first + lo, first + c), c, hi, first)

\* for i := (hi - 1) / 2; i >= 0; i-- { siftDown(data, i, hi, first) }
RECURSIVE buildHeap(_, _, _, _)
buildHeap(data, i, hi, first) ==
    IF i < 0 \/ Len(data) = 0 THEN data
    ELSE buildHeap(siftDown(data, i, hi, first), i - 1, hi, first)

\* for i := hi - 1; i >= 0; i-- { swap(first, first+i); siftDown(data, 0, i, first) }
RECURSIVE popHeap(_, _, _)
popHeap(data, i, first) ==
    IF i < 0 \/ Len(data) = 0 THEN data
    ELSE popHeap(siftDown(Swap(data, first, first + i), 0, i, first), i - 1, first)

heapSort(data, a, b) ==
    LET hi == b - a
    IN  popHeap(buildHeap(data, (hi - 1) \div 2, hi, a), hi - 1, a)

\* a uint64 as the sequence of its 64 bits, the lowest first
WordBits == 64

Word(n) ==
    LET bits == [i \in 1..WordBits |-> IF i <= 31 THEN (n \div (2 ^ (i - 1))) % 2 ELSE 0]
    IN  SubSeq(bits, 1, WordBits)

\* r << s
ShiftLeft(r, s) ==
    LET bits == [i \in 1..WordBits |-> IF i > s THEN r[i - s] ELSE 0]
    IN  SubSeq(bits, 1, WordBits)

\* r >> s
ShiftRight(r, s) ==
    LET bits == [i \in 1..WordBits |-> IF i + s <= WordBits THEN r[i + s] ELSE 0]
    IN  SubSeq(bits, 1, WordBits)

\* r ^ q
Xor(r, q) ==
    LET bits == [i \in 1..WordBits |-> (r[i] + q[i]) % 2]
    IN  SubSeq(bits, 1, WordBits)

\* r & (2^k - 1)
RECURSIVE LowBits(_, _)
LowBits(r, k) == IF k = 0 THEN 0 ELSE LowBits(r, k - 1) + r[k] * (2 ^ (k - 1))

\* xorshift.Next: r ^= r << 13; r ^= r >> 7; r ^= r << 17
xorshiftNext(r) ==
    LET r1 == Xor(r, ShiftLeft(r, 13))
        r2 == Xor(r1, ShiftRight(r1, 7))
    IN  Xor(r2, ShiftLeft(r2, 17))

\* bits.Len: the number of bits needed to write n
RECURSIVE bitsLen(_)
bitsLen(n) == IF n = 0 THEN 0 ELSE 1 + bitsLen(n \div 2)

\* three elements around the middle of data[a..b-1] exchanged with elements
\* at pseudo-random places; the generator is seeded with the length, and a
\* random number is cut to the bits below nextPowerOfTwo(length), which is
\* 1 << bits.Len(length)
RECURSIVE breakPatternsFrom(_, _, _, _, _, _)
breakPatternsFrom(data, a, length, idx, random, i) ==
    IF i >= 3 THEN data
    ELSE LET next == xorshiftNext(random)
             masked == LowBits(next, bitsLen(length))
             other == IF masked >= length THEN masked - length ELSE masked
         IN  breakPatternsFrom(Swap(data, idx + i, a + other), a, length, idx,
                               next, i + 1)

breakPatterns(data, a, b) ==
    LET length == b - a
    IN  IF length >= 8
        THEN breakPatternsFrom(data, a, length, a + (length \div 4) * 2 - 1,
                               Word(length), 0)
        ELSE data

\* the two indices ordered by their elements, and the number of swaps so far
order2(data, a, b, swaps) ==
    IF Less(data, b, a) THEN <<b, a, swaps + 1>> ELSE <<a, b, swaps>>

\* index of the median of three elements, and the number of swaps
median(data, a, b, c, swaps) ==
    LET r1 == order2(data, a, b, swaps)
        r2 == order2(data, r1[2], c, r1[3])
        r3 == order2(data, r1[1], r2[1], r2[3])
    IN  <<r3[2], r3[3]>>

medianAdjacent(data, a, swaps) == median(data, a - 1, a, a + 1, swaps)

\* pivot of data[a..b-1] and a hint on its order: the median of the elements at
\* the three quarter points, for shortestNinther elements and more the median
\* of the medians around them
choosePivot(data, a, b) ==
    LET l == b - a
        i == a + (l \div 4) * 1
        j == a + (l \div 4) * 2
        k == a + (l \div 4) * 3
        ninther == l >= shortestNinther
        mi == IF ninther THEN medianAdjacent(data, i, 0) ELSE <<i, 0>>
        mj == IF ninther THEN medianAdjacent(data, j, mi[2]) ELSE <<j, mi[2]>>
        mk == IF ninther THEN medianAdjacent(data, k, mj[2]) ELSE <<k, mj[2]>>
        m == IF l >= 8 THEN median(data, mi[1], mj[1], mk[1], mk[2]) ELSE <<j, 0>>
    IN  [pivot |-> m[1],
         hint |-> IF m[2] = 0 THEN increasingHint
                  ELSE IF m[2] = maxSwaps THEN decreasingHint
                  ELSE unknownHint]

\* for i < j { swap(i, j); i++; j-- } from i = a, j = b-1: the element at index
\* i of data[a..b-1] goes to index a + b - 1 - i
reverseRange(data, a, b) ==
    LET reversed == [k \in 1..Len(data) |->
                        IF a + 1 <= k /\ k <= b THEN data[a + b + 1 - k] ELSE data[k]]
    IN  SubSeq(reversed, 1, Len(data))

\* for i < b && !less(i, i-1) { i++ }: the first index from i on that is b or
\* holds an element out of order
firstOutOfOrder(data, i, b) ==
    IF i >= b THEN i
    ELSE SetMin({k \in i..b : k = b \/ Less(data, k, k - 1)})

\* the elements of data at the indices from+1..to moved down by one and the
\* element at from put at to
MoveUp(data, from, to) ==
    LET moved == [k \in 1..Len(data) |->
                     IF k = to + 1 THEN data[from + 1]
                     ELSE IF from + 1 <= k /\ k < to + 1 THEN data[k + 1]
                     ELSE data[k]]
    IN  SubSeq(moved, 1, Len(data))

\* for j := i - 1; j >= 1; j-- { if !less(j, j-1) { break }; swap(j, j-1) }
\* with i - 1 given as j: the element at j is swapped down, past every element
\* it is less than, to the first index (0 at the lowest) where the element
\* before it is not one
shiftSmaller(data, j) ==
    LET stop == SetMax({k \in 0..j : k = 0 \/ ~OffsetLess(data[j + 1], data[k], TRUE)})
    IN  MoveDown(data, stop, j)

\* for j := i + 1; j < b; j++ { if !less(j, j-1) { break }; swap(j, j-1) }
\* with i + 1 given as j: the element at j-1 is swapped up, past every element
\* that is less than it, to the last index below b where the element after
\* it is not one
shiftGreater(data, j, b) ==
    LET stop == SetMin({k \in j..b : k = b \/ ~OffsetLess(data[k + 1], data[j], TRUE)})
    IN  MoveUp(data, j - 1, stop - 1)

\* up to maxSteps times: find the next out-of-order pair, and on a slice of
\* shortestShifting elements or more exchange it and shift both elements into
\* place
RECURSIVE partialInsertionSteps(_, _, _, _, _)
partialInsertionSteps(data, a, b, i, step) ==
    IF step >= maxSteps THEN [data |-> data, sorted |-> FALSE]
    ELSE LET i2 == firstOutOfOrder(data, i, b)
         IN  IF i2 = b THEN [data |-> data, sorted |-> TRUE]
             ELSE IF b - a < shortestShifting THEN [data |-> data, sorted |-> FALSE]
             ELSE LET d1 == Swap(data, i2, i2 - 1)
                      d2 == IF i2 - a >= 2 THEN shiftSmaller(d1, i2 - 1) ELSE d1
                      d3 == IF b - i2 >= 2 THEN shiftGreater(d2, i2 + 1, b) ELSE d2
                  IN  partialInsertionSteps(d3, a, b, i2, step + 1)

partialInsertionSort(data, a, b) == partialInsertionSteps(data, a, b, a + 1, 0)

\* for i <= j && !less(a, i) { i++ }: the first index from i on that is past j
\* or holds an element after the pivot
scanUpEqual(data, a, i, j) ==
    IF i > j THEN i
    ELSE SetMin({k \in i..(j + 1) : k > j \/ Less(data, a, k)})

\* for i <= j && less(a, j) { j-- }: the last index up to j that is before i
\* or holds an element not after the pivot
scanDownEqual(data, a, i, j) ==
    IF i > j THEN j
    ELSE SetMax({k \in (i - 1)..j : k < i \/ ~Less(data, a, k)})

RECURSIVE partitionEqualLoop(_, _, _, _)
partitionEqualLoop(data, a, i, j) ==
    LET i2 == scanUpEqual(data, a, i, j)
        j2 == scanDownEqual(data, a, i2, j)
    IN  IF i2 > j2 THEN [data |-> data, mid |-> i2]
        ELSE partitionEqualLoop(Swap(data, i2, j2), a, i2 + 1, j2 - 1)

\* data[a..b-1] split into the elements equal to the pivot and those after it
partitionEqual(data, a, b, pivot) ==
    partitionEqualLoop(Swap(data, a, pivot), a, a + 1, b - 1)

\* for i <= j && less(i, a) { i++ }: the first index from i on that is past j
\* or holds an element not before the pivot
scanUp(data, a, i, j) ==
    IF i > j THEN i
    ELSE SetMin({k \in i..(j + 1) : k > j \/ ~Less(data, k, a)})

\* for i <= j && !less(j, a) { j-- }: the last index up to j that is before i
\* or holds an element before the pivot
scanDown(data, a, i, j) ==
    IF i > j THEN j
    ELSE SetMax({k \in (i - 1)..j : k < i \/ Less(data, k, a)})

\* the loop of partition: scan from both ends, swap, until the scans cross
RECURSIVE partitionLoop(_, _, _, _)
partitionLoop(data, a, i, j) ==
    LET i2 == scanUp(data, a, i, j)
        j2 == scanDown(data, a, i2, j)
    IN  IF i2 > j2 THEN [data |-> data, j |-> j2]
        ELSE partitionLoop(Swap(data, i2, j2), a, i2 + 1, j2 - 1)

partition(data, a, b, pivot) ==
    LET d0 == Swap(data, a, pivot)
        i  == scanUp(d0, a, a + 1, b - 1)
        j  == scanDown(d0, a, i, b - 1)
    IN  IF i > j
        THEN [data |-> Swap(d0, j, a), mid |-> j, alreadyPartitioned |-> TRUE]
        ELSE LET r == partitionLoop(Swap(d0, i, j), a, i + 1, j - 1)
             IN  [data |-> Swap(r.data, r.j, a), mid |-> r.j,
                  alreadyPartitioned |-> FALSE]

(* pdqsort_func on data[a..b-1].  The loop's variables wasBalanced and
   wasPartitioned are parameters, TRUE on entry; one round of the loop is
   written as the chain of operators below, each taking up the round where the
   one before it leaves it. *)
RECURSIVE pdqsort(_, _, _, _, _, _)

\* after the partitioning p: the shorter side is sorted by a call of its own,
\* the longer one by the next round
pdqsortSides(p, a, b, limit) ==
    IF p.mid - a < b - p.mid
    THEN pdqsort(pdqsort(p.data, a, p.mid, limit, TRUE, TRUE),
                 p.mid + 1, b, limit,
                 p.mid - a >= (b - a) \div 8, p.alreadyPartitioned)
    ELSE pdqsort(pdqsort(p.data, p.mid + 1, b, limit, TRUE, TRUE),
                 a, p.mid, limit,
                 b - p.mid >= (b - a) \div 8, p.alreadyPartitioned)

\* after the partitioning e into equal and greater elements: a = mid; continue
pdqsortEqual(e, b, limit, wasBalanced, wasPartitioned) ==
    pdqsort(e.data, e.mid, b, limit, wasBalanced, wasPartitioned)

\* the partitioning: of equal elements when the pivot equals the element
\* before the slice
pdqsortPartition(data, a, b, limit, pivot, wasBalanced, wasPartitioned) ==
    IF a > 0 /\ ~Less(data, a - 1, pivot)
    THEN pdqsortEqual(partitionEqual(data, a, b, pivot), b, limit,
                      wasBalanced, wasPartitioned)
    ELSE pdqsortSides(partition(data, a, b, pivot), a, b, limit)

\* after the attempt s to finish a probably sorted slice
pdqsortUnfinished(s, a, b, limit, pivot, wasBalanced, wasPartitioned) ==
    IF s.sorted THEN s.data
    ELSE pdqsortPartition(s.data, a, b, limit, pivot, wasBalanced, wasPartitioned)

\* with the pivot and the hint: a probably sorted slice is tried first
pdqsortHinted(data, a, b, limit, pivot, hint, wasBalanced, wasPartitioned) ==
    pdqsortUnfinished(IF wasBalanced /\ wasPartitioned /\ hint = increasingHint
                      THEN partialInsertionSort(data, a, b)
                      ELSE [data |-> data, sorted |-> FALSE],
                      a, b, limit, pivot, wasBalanced, wasPartitioned)

\* after the pivot choice c: a probably descending slice is reversed, and the
\* pivot, pivot-a elements after the start, is then as many before the end
pdqsortChosen(data, c, a, b, limit, wasBalanced, wasPartitioned) ==
    pdqsortHinted(IF c.hint = decreasingHint THEN reverseRange(data, a, b) ELSE data,
                  a, b, limit,
                  IF c.hint = decreasingHint THEN (b - 1) - (c.pivot - a) ELSE c.pivot,
                  IF c.hint = decreasingHint THEN increasingHint ELSE c.hint,
                  wasBalanced, wasPartitioned)

\* the pivot choice
pdqsortRound(data, a, b, limit, wasBalanced, wasPartitioned) ==
    pdqsortChosen(data, choosePivot(data, a, b), a, b, limit,
                  wasBalanced, wasPartitioned)

\* the head of the loop: insertion sort of a short slice, heap sort when limit
\* is used up, pattern breaking (and limit--) after an unbalanced partitioning
pdqsort(data, a, b, limit, wasBalanced, wasPartitioned) ==
    IF b - a <= maxInsertion THEN insertionSortRange(data, a, b)
    ELSE IF limit = 0 THEN heapSort(data, a, b)
    ELSE pdqsortRound(IF wasBalanced THEN data ELSE breakPatterns(data, a, b),
                      a, b,
                      IF wasBalanced THEN limit ELSE limit - 1,
                      wasBalanced, wasPartitioned)

\* lines 145-147
sortMatches(matches) ==
    pdqsort(matches, 0, Len(matches), bitsLen(Len(matches)), TRUE, TRUE)

\* Go's int, Offset and Length of a match, has 64 bits
IntBits == 64

\* x + y on Go's int: the sum modulo 2^IntBits in two's complement.  A sum of
\* less than 32 bits is itself, and is returned without computing the modulus.
AddInt(x, y) ==
    LET sum == x + y
        half == 2 ^ (IntBits - 1)
    IN  IF -(2 ^ 30) <= sum /\ sum < 2 ^ 30 THEN sum
        ELSE ((sum + half) % (2 * half)) - half

\* the bound test is offset+length < len(corrected): an edit that ends at the
\* end of the text is skipped
applyMatchStrictBound(st, match) ==
    IF st.panicked \/ Len(match.replacements) = 0 THEN st
    ELSE LET offset == match.offset
             length == match.length
             end == AddInt(offset, length)
             n == Len(st.corrected)
         IN  IF end < n
             THEN IF offset < 0 \/ offset > n \/ end < 0
                  THEN [st EXCEPT !.panicked = TRUE]
                  ELSE [corrected |-> SubSeq(st.corrected, 1, offset) \o match.replacements[1]
                                      \o SubSeq(st.corrected, end + 1, n),
                        count |-> st.count + 1,
                        panicked |-> FALSE]
             ELSE st

\* lines 151-162 for one match, on the state [corrected, count, panicked] of the
\* loop; a slice expression with a bound out of range panics
applyMatch(st, match) ==
    IF st.panicked THEN st
    ELSE IF Len(match.replacements) > 0
    THEN LET offset == match.offset
             length == match.length
             replacement == match.replacements[1]
             end == AddInt(offset, length)
             n == Len(st.corrected)
         IN  IF end <= n
             THEN IF offset < 0 \/ offset > n \/ end < 0
                  THEN [st EXCEPT !.panicked = TRUE]
                  ELSE [corrected |-> SubSeq(st.corrected, 1, offset) \o replacement
                                      \o SubSeq(st.corrected, end + 1, n),
                        count |-> st.count + 1,
                        panicked |-> FALSE]
             ELSE st
    ELSE st

\* the loop of lines 151-162 over matches, the first half of the list and then
\* the rest; a panic ends it
RECURSIVE applyMatches(_, _)
applyMatches(st, matches) ==
    IF Len(matches) = 0 THEN st
    ELSE IF Len(matches) = 1 THEN applyMatch(st, matches[1])
    ELSE LET half == Len(matches) \div 2
             first == applyMatches(st, SubSeq(matches, 1, half))
         IN  IF first.panicked THEN first
             ELSE applyMatches(first, SubSeq(matches, half + 1, Len(matches)))

\* lines 140-165
applyCorrections(text, matches) ==
    applyMatches([corrected |-> text, count |-> 0, panicked |-> FALSE],
                 sortMatches(matches))

Alphabet == <<"a", "b", "c", "d", "e", "f", "g", "h">>

Texts == {SubSeq(Alphabet, 1, n) : n \in 0..MaxTextLen}

CandidateLists == {<<>>, << <<"X">>, <<"Y">> >>, << <<"Z", "Z">> >>}

Matches ==
    [offset : -1..(MaxTextLen + 1), length : -1..2, replacements : CandidateLists]

HelloWorld == <<"H", "e", "l", "l", "o", " ", "w", "o", "r", "l", "d">>

Earth == <<"e", "a", "r", "t", "h">>

\* "Hello world" with the single edit {offset, 5, "earth"}
HelloEdit(offset) ==
    [text |-> HelloWorld,
     matches |-> <<[offset |-> offset, length |-> 5, replacements |-> <<Earth>>]>>]

InitApply ==
    /\ arg \in [text : Texts, matches : SeqsUpTo(Matches, MaxEdits)]
               \cup {HelloEdit(6), HelloEdit(7)}
    /\ ret = <<>>
    /\ called = FALSE
    /\ CropIdle
    /\ CorrectIdle

CallApplyCorrections ==
    /\ ~called
    /\ ret' = applyCorrections(arg.text, arg.matches)
    /\ called' = TRUE
    /\ UNCHANGED <<arg, cropVars, correctVars>>

NextApply == CallApplyCorrections

SpecApply == InitApply /\ [][NextApply]_vars

(* The applier called on lists that sort.Slice partitions: insertions of
   distinct letters into a text of "x"s.  FirstPartitionedLen to MaxSortLen
   insertions, each at offset 0 or 1, and lists that take the sort through
   each of its branches. *)

MaxSortLen == 14

SortLetters ==
    <<"a", "b", "c", "d", "e", "f", "g", "h", "i", "j", "k", "l", "m",
      "n", "o", "p", "q", "r", "s", "t", "u", "v", "w", "y", "z", "A",
      "B", "C", "D", "E", "F", "G", "H", "I", "J", "K", "L", "M", "N",
      "O", "P", "Q", "R", "S", "T", "U", "V", "W", "X", "Y", "Z">>

Xs(n) == [i \in 1..n |-> "x"]

Insertions(text, offsets) ==
    [text |-> text,
     matches |-> [i \in 1..Len(offsets) |->
                     [offset |-> offsets[i], length |-> 0,
                      replacements |-> << <<SortLetters[i]>> >>]]]

\* the shortest partitioned list: twelve insertions at 0, then one at 1
Sort_ThirteenTie ==
    Insertions(<<"x">>, [i \in 1..FirstPartitionedLen |->
                            IF i = FirstPartitionedLen THEN 1 ELSE 0])

\* partitioned twice, the second time into equal and greater elements
Sort_EqualPartition ==
    Insertions(<<"x">>, <<0, 0, 0, 0, 0, 0, 0, 0, 1, 0, 0, 0, 0, 0, 0>>)

\* an unbalanced first partitioning, then pattern breaking
Sort_PatternBroken ==
    Insertions(<<"x">>, <<0, 0, 1, 1, 0, 0, 0, 0, 0, 1, 0, 0, 0, 0, 0>>)

\* unbalanced partitionings until limit is used up: heap sort
Sort_HeapSorted ==
    Insertions(Xs(23), <<19, 14, 5, 1, 0, 14, 20, 7, 7, 8, 12, 6, 23, 16, 3, 14,
                         8, 14, 23, 11, 8, 6, 5, 7>>)

\* shortestNinther insertions at ascending offsets: the slice is reversed
Sort_Ascending == Insertions(Xs(shortestNinther), [i \in 1..shortestNinther |-> i])

\* descending but for one exchanged pair, which partialInsertionSort repairs
Sort_OnePairExchanged ==
    Insertions(Xs(shortestNinther),
               [i \in 1..shortestNinther |->
                   IF i = 21 THEN shortestNinther - 21
                   ELSE IF i = 22 THEN shortestNinther - 20
                   ELSE shortestNinther + 1 - i])

\* more out-of-order pairs than partialInsertionSort repairs
Sort_FivePairs ==
    Insertions(Xs(9),
               [i \in 1..shortestNinther |->
                   IF i = 12 THEN 5 ELSE IF i = 14 THEN 3
                   ELSE IF i \in 36..38 THEN 9 ELSE 0])

NamedSortInputs ==
    {Sort_ThirteenTie, Sort_EqualPartition, Sort_PatternBroken, Sort_HeapSorted,
     Sort_Ascending, Sort_OnePairExchanged, Sort_FivePairs}

InitSort ==
    /\ \/ \E n \in FirstPartitionedLen..MaxSortLen :
             \E o \in [1..n -> {0, 1}] : arg = Insertions(<<"x">>, o)
       \/ arg \in NamedSortInputs
    /\ ret = <<>>
    /\ called = FALSE
    /\ CropIdle
    /\ CorrectIdle

SpecSort == InitSort /\ [][NextApply]_vars

----------------------------------------------------------------------------
(* correct.go: main and checkLanguageTool *)

\* chapterPattern "chapter_*.md": the text before and after the star
PatternPrefix == <<"c", "h", "a", "p", "t", "e", "r", "_">>

PatternSuffix == <<".", "m", "d">>

CorrectedSuffix ==
    <<"_", "c", "o", "r", "r", "e", "c", "t", "e", "d", ".", "m", "d">>

\* filepath.Match of chapterPattern with a file name (no separator in it): the
\* star matches any sequence of characters, the empty one included
matchesChapterPattern(name) ==
    /\ Len(name) >= Len(PatternPrefix) + Len(PatternSuffix)
    /\ HasPrefix(name, PatternPrefix)
    /\ HasSuffix(name, PatternSuffix)

TrimSuffix(s, p) == IF HasSuffix(s, p) THEN SubSeq(s, 1, Len(s) - Len(p)) ELSE s

\* line 82
outputFile(file) == TrimSuffix(file, PatternSuffix) \o CorrectedSuffix

\* the characters of the file names in the order of their byte values
ByteOrder ==
    <<".", "0", "1", "2", "3", "4", "5", "6", "7", "8", "9", "_",
      "a", "b", "c", "d", "e", "f", "g", "h", "i", "j", "k", "l", "m",
      "n", "o", "p", "q", "r", "s", "t", "u", "v", "w", "x", "y", "z">>

ByteRank(c) == CHOOSE r \in 1..Len(ByteOrder) : ByteOrder[r] = c

\* a < b for Go strings: byte-wise lexicographic order
RECURSIVE StringLess(_, _)
StringLess(a, b) ==
    IF Len(b) = 0 THEN FALSE
    ELSE IF Len(a) = 0 THEN TRUE
    ELSE IF a[1] = b[1] THEN StringLess(Tail(a), Tail(b))
    ELSE ByteRank(a[1]) < ByteRank(b[1])

\* the names of S in ascending order
RECURSIVE SortedNames(_)
SortedNames(S) ==
    IF S = {} THEN <<>>
    ELSE LET least == CHOOSE x \in S : \A y \in S \ {x} : StringLess(x, y)
         IN  <<least>> \o SortedNames(S \ {least})

\* filepath.Glob(chapterPattern) in directory d: the matching names, in the
\* sorted order in which Glob reads a directory.  The pattern is well formed,
\* so Glob returns no error (lines 49-52 are not taken).
Glob(d) == SortedNames({name \in DOMAIN d : matchesChapterPattern(name)})

RECURSIVE sinkString(_, _)
sinkString(data, j) ==
    IF j > 1 /\ StringLess(data[j], data[j - 1])
    THEN sinkString([data EXCEPT ![j] = data[j - 1], ![j - 1] = data[j]], j - 1)
    ELSE data

RECURSIVE sortStringsFrom(_, _)
sortStringsFrom(data, i) ==
    IF i > Len(data) THEN data
    ELSE sortStringsFrom(sinkString(data, i), i + 1)

\* line 59: sort.Strings
sortStrings(data) == sortStringsFrom(data, 2)

\* the non-200 status is not looked at: only a failed request is an error
checkLanguageToolStatusIgnored(resp) == resp.failed

\* lines 96-108: TRUE when checkLanguageTool returns an error
checkLanguageTool(resp) == resp.failed \/ resp.status # 200

\* lines 118-138: TRUE when correctWithLanguageTool returns before the edits
\* are applied: PostForm failed, status other than 200, body unreadable, body
\* not the JSON of a LanguageToolResponse
responseError(resp) ==
    resp.failed \/ resp.status # 200 \/ ~resp.read \/ ~resp.parsed

\* lines 110-166 for the answer resp of the service
correctWithLanguageTool(text, resp) ==
    IF responseError(resp)
    THEN [corrected |-> <<>>, count |-> 0, err |-> TRUE, panicked |-> FALSE]
    ELSE [err |-> FALSE] @@ applyCorrections(text, resp.matches)

(* The directories a correction run can start in: the chapter files that
   segmentation wrote, chapter_01.md up to chapter_NN.md with output.md, and
   possibly the corrected artifact an earlier correction run left behind *)

MaxChapterFiles == 2

DigitChars == <<"0", "1", "2", "3", "4", "5", "6", "7", "8", "9">>

\* %02d
TwoDigits(n) == <<DigitChars[(n \div 10) + 1], DigitChars[(n % 10) + 1]>>

\* crop.go line 93: the base name of chapterFile
chapterFileName(n) == PatternPrefix \o TwoDigits(n) \o PatternSuffix

OutputMDName == <<"o", "u", "t", "p", "u", "t", ".", "m", "d">>

ChapterContent(n) == SubSeq(Alphabet, n, n + 1)

RECURSIVE ChapterDir(_)
ChapterDir(n) ==
    IF n = 0 THEN (OutputMDName :> <<"o">>)
    ELSE (chapterFileName(n) :> ChapterContent(n)) @@ ChapterDir(n - 1)

EarlierCorrected == outputFile(chapterFileName(1)) :> ChapterContent(1)

StartDirs ==
    {ChapterDir(n) : n \in 0..MaxChapterFiles}
        \cup {EarlierCorrected @@ ChapterDir(n) : n \in 1..MaxChapterFiles}

\* answers to the GET of checkLanguageTool
ProbeResponses ==
    {[sent |-> TRUE, failed |-> TRUE, status |-> 0],
     [sent |-> TRUE, failed |-> FALSE, status |-> 200],
     [sent |-> TRUE, failed |-> FALSE, status |-> 500]}

\* match lists of a successful answer: none, an applicable edit, an edit
\* without candidate, an edit beyond the end, an edit before the beginning
ServiceMatchLists ==
    {<<>>,
     <<[offset |-> 0, length |-> 1, replacements |-> << <<"X">> >>]>>,
     <<[offset |-> 0, length |-> 1, replacements |-> <<>>]>>,
     <<[offset |-> 2, length |-> 1, replacements |-> << <<"X">> >>]>>,
     <<[offset |-> -1, length |-> 0, replacements |-> << <<"X">> >>]>>}

NoResponse ==
    [failed |-> TRUE, status |-> 0, read |-> FALSE, parsed |-> FALSE,
     matches |-> <<>>]

\* answers to the POST of correctWithLanguageTool
ServiceResponses ==
    {NoResponse,
     [failed |-> FALSE, status |-> 500, read |-> TRUE, parsed |-> FALSE,
      matches |-> <<>>],
     [failed |-> FALSE, status |-> 200, read |-> FALSE, parsed |-> FALSE,
      matches |-> <<>>],
     [failed |-> FALSE, status |-> 200, read |-> TRUE, parsed |-> FALSE,
      matches |-> <<>>]}
        \cup {[failed |-> FALSE, status |-> 200, read |-> TRUE,
               parsed |-> TRUE, matches |-> ms] : ms \in ServiceMatchLists}

InitCorrect ==
    /\ cpc = "probe"
    /\ dir0 \in StartDirs
    /\ dir = dir0
    /\ files = <<>>
    /\ fileIdx = 0
    /\ probe = NoProbe
    /\ log = <<>>
    /\ CropIdle
    /\ CallIdle

\* lines 39-45: the probe fails, main returns
ProbeFails ==
    /\ cpc = "probe"
    /\ \E resp \in ProbeResponses :
        /\ checkLanguageTool(resp)
        /\ probe' = resp
    /\ cpc' = "skipped"
    /\ UNCHANGED <<dir, files, fileIdx, dir0, log, cropVars, callVars>>

\* line 39: the probe succeeds
ProbeSucceeds ==
    /\ cpc = "probe"
    /\ \E resp \in ProbeResponses :
        /\ ~checkLanguageTool(resp)
        /\ probe' = resp
    /\ cpc' = "glob"
    /\ UNCHANGED <<dir, files, fileIdx, dir0, log, cropVars, callVars>>

\* lines 48-57: no file matches, main returns
NoChapterFiles ==
    /\ cpc = "glob"
    /\ Glob(dir) = <<>>
    /\ cpc' = "nofiles"
    /\ UNCHANGED <<dir, files, fileIdx, probe, dir0, log, cropVars, callVars>>

\* lines 48-61
FindChapters ==
    /\ cpc = "glob"
    /\ Glob(dir) # <<>>
    /\ files' = sortStrings(Glob(dir))
    /\ fileIdx' = 1
    /\ cpc' = "loop"
    /\ UNCHANGED <<dir, probe, dir0, log, cropVars, callVars>>

LogEntry(file, outcome, content, resp, r) ==
    [file |-> file, outcome |-> outcome, content |-> content,
     response |-> resp, err |-> r.err, corrected |-> r.corrected,
     count |-> r.count]

\* lines 68-72: os.ReadFile fails, continue
ChapterUnreadable ==
    /\ cpc = "loop"
    /\ fileIdx <= Len(files)
    /\ log' = Append(log, LogEntry(files[fileIdx], "unreadable", <<>>,
                                   NoResponse,
                                   [err |-> FALSE, corrected |-> <<>>,
                                    count |-> 0]))
    /\ fileIdx' = fileIdx + 1
    /\ UNCHANGED <<cpc, dir, files, probe, dir0, cropVars, callVars>>

\* lines 75-79: correctWithLanguageTool returns an error, continue
ServiceFails ==
    /\ cpc = "loop"
    /\ fileIdx <= Len(files)
    /\ \E resp \in ServiceResponses :
        LET file == files[fileIdx]
            r == correctWithLanguageTool(dir[file], resp)
        IN  /\ r.err
            /\ log' = Append(log, LogEntry(file, "service", dir[file], resp, r))
    /\ fileIdx' = fileIdx + 1
    /\ UNCHANGED <<cpc, dir, files, probe, dir0, cropVars, callVars>>

\* line 159 panics on a slice bound out of range: the process ends
ApplierPanics ==
    /\ cpc = "loop"
    /\ fileIdx <= Len(files)
    /\ \E resp \in ServiceResponses :
        LET file == files[fileIdx]
            r == correctWithLanguageTool(dir[file], resp)
        IN  /\ ~r.err
            /\ r.panicked
            /\ log' = Append(log, LogEntry(file, "panic", dir[file], resp, r))
    /\ cpc' = "crashed"
    /\ UNCHANGED <<dir, files, fileIdx, probe, dir0, cropVars, callVars>>

\* lines 75-90: the corrected text is written
ChapterCorrected ==
    /\ cpc = "loop"
    /\ fileIdx <= Len(files)
    /\ \E resp \in ServiceResponses :
        LET file == files[fileIdx]
            r == correctWithLanguageTool(dir[file], resp)
        IN  /\ ~r.err
            /\ ~r.panicked
            /\ dir' = (outputFile(file) :> r.corrected) @@ dir
            /\ log' = Append(log, LogEntry(file, "written", dir[file], resp, r))
    /\ fileIdx' = fileIdx + 1
    /\ UNCHANGED <<cpc, files, probe, dir0, cropVars, callVars>>

\* lines 83-88: os.WriteFile fails, continue
CorrectedUnwritable ==
    /\ cpc = "loop"
    /\ fileIdx <= Len(files)
    /\ \E resp \in ServiceResponses :
        LET file == files[fileIdx]
            r == correctWithLanguageTool(dir[file], resp)
        IN  /\ ~r.err
            /\ ~r.panicked
            /\ log' = Append(log, LogEntry(file, "unwritable", dir[file], resp, r))
    /\ fileIdx' = fileIdx + 1
    /\ UNCHANGED <<cpc, dir, files, probe, dir0, cropVars, callVars>>

\* line 93: the range loop is over
AllCorrected ==
    /\ cpc = "loop"
    /\ fileIdx > Len(files)
    /\ cpc' = "done"
    /\ UNCHANGED <<dir, files, fileIdx, probe, dir0, log, cropVars, callVars>>

NextCorrect ==
    \/ ProbeFails
    \/ ProbeSucceeds
    \/ NoChapterFiles
    \/ FindChapters
    \/ ChapterUnreadable
    \/ ServiceFails
    \/ ApplierPanics
    \/ ChapterCorrected
    \/ CorrectedUnwritable
    \/ AllCorrected

SpecCorrect == InitCorrect /\ [][NextCorrect]_vars

----------------------------------------------------------------------------
(* Claims about the correction applier *)

SpanEnd(m) == m.offset + m.length

\* the edit has a candidate and its span lies within text
InRange(text, m) ==
    /\ Len(m.replacements) >= 1
    /\ m.offset >= 0
    /\ m.length >= 0
    /\ SpanEnd(m) <= Len(text)

\* no two edits of ms have a position of the text in common
NonOverlapping(ms) ==
    \A i, j \in 1..Len(ms) :
        i # j => (SpanEnd(ms[i]) <= ms[j].offset \/ SpanEnd(ms[j]) <= ms[i].offset)

DistinctOffsets(ms) ==
    \A i, j \in 1..Len(ms) : i # j => ms[i].offset # ms[j].offset

\* text from position pos on with the spans of es, which lie left to right,
\* replaced by their first candidates
RECURSIVE Lay(_, _, _)
Lay(text, pos, es) ==
    IF Len(es) = 0 THEN SubSeq(text, pos + 1, Len(text))
    ELSE SubSeq(text, pos + 1, Head(es).offset) \o Head(es).replacements[1]
         \o Lay(text, SpanEnd(Head(es)), Tail(es))

\* the texts that replacing all spans of ms at once gives: one for every way
\* of putting ms in left-to-right order
Simultaneous(text, ms) ==
    LET n == Len(ms)
        orders == {p \in [1..n -> 1..n] :
                      /\ \A i, j \in 1..n : i # j => p[i] # p[j]
                      /\ \A i \in 1..(n - 1) : SpanEnd(ms[p[i]]) <= ms[p[i + 1]].offset}
    IN  {Lay(text, 0, [i \in 1..n |-> ms[p[i]]]) : p \in orders}

Eligible ==
    /\ \A i \in 1..Len(arg.matches) : InRange(arg.text, arg.matches[i])
    /\ NonOverlapping(arg.matches)

AppliedAllAtOnce ==
    /\ ~ret.panicked
    /\ ret.corrected \in Simultaneous(arg.text, arg.matches)
    /\ ret.count = Len(arg.matches)
    /\ arg.matches = <<>> => ret.corrected = arg.text

\* C1 as stated: for pairwise non-overlapping edits, each with a candidate and
\* within the original text, the applier returns the text with every span, at
\* its offset in the original text, replaced by its first candidate, and counts
\* every edit; without edits it returns (text, 0).
C1_SimultaneousReplacement ==
    (called /\ Eligible) => AppliedAllAtOnce

\* C1 amended: the same for edits whose offsets are pairwise distinct (an empty
\* span at the offset of another edit is applied to the other edit's
\* replacement when it comes first in the response).
C1_SimultaneousDistinctOffsets ==
    (called /\ Eligible /\ DistinctOffsets(arg.matches)) => AppliedAllAtOnce

\* two edits in ascending order in the response, the left one growing the text,
\* the right one shrinking it
C1_Witness ==
    /\ called
    /\ arg.text = <<"a", "b", "c">>
    /\ arg.matches = <<[offset |-> 0, length |-> 0, replacements |-> << <<"X">>, <<"Y">> >>],
                       [offset |-> 1, length |-> 2, replacements |-> << <<"X">>, <<"Y">> >>]>>
    /\ ret = [corrected |-> <<"X", "a", "X">>, count |-> 2, panicked |-> FALSE]

\* the claim's malformed edits: negative offset, negative length, offset beyond
\* the end of the text, span past the end
Malformed(text, m) ==
    \/ m.offset < 0
    \/ m.length < 0
    \/ m.offset > Len(text)
    \/ SpanEnd(m) > Len(text)

\* C2: whatever edits the service returns, malformed ones included, the applier
\* does not panic, and its result is the one it gives with the malformed edits
\* left out: they are skipped, not counted and leave the text unchanged.
C2_MalformedSkippedNoPanic ==
    called =>
        LET WellFormed(m) == ~Malformed(arg.text, m)
        IN  /\ ~ret.panicked
            /\ ret = applyCorrections(arg.text, SelectSeq(arg.matches, WellFormed))

\* s with the span of m replaced by m's first candidate
Splice(s, m) ==
    SubSeq(s, 1, m.offset) \o m.replacements[1] \o SubSeq(s, SpanEnd(m) + 1, Len(s))

\* C11: an edit is substituted exactly when it has a candidate and offset+length
\* does not exceed the length of the text as it is when the edit's turn comes;
\* any other edit leaves the text unchanged, and appliedCount is the number of
\* edits substituted, between 0 and the number of edits.
C11_SubstitutedIffCandidateAndFits ==
    called =>
        LET s == sortMatches(arg.matches)
            start == [corrected |-> arg.text, count |-> 0, panicked |-> FALSE]
            before(k) == applyMatches(start, SubSeq(s, 1, k - 1))
            fits(k) == /\ Len(s[k].replacements) >= 1
                       /\ SpanEnd(s[k]) <= Len(before(k).corrected)
        IN  /\ ~ret.panicked
            /\ \A k \in 1..Len(s) :
                   IF fits(k)
                   THEN /\ before(k + 1).corrected = Splice(before(k).corrected, s[k])
                        /\ before(k + 1).count = before(k).count + 1
                   ELSE before(k + 1) = before(k)
            /\ ret.count = Cardinality({k \in 1..Len(s) : fits(k)})
            /\ ret.count \in 0..Len(s)

\* C12 as stated: the edit {offset 7, length 5, "earth"} turns "Hello world"
\* into "Hello earth" with appliedCount 1.
C12_HelloEarthAtSeven ==
    (called /\ arg = HelloEdit(7)) =>
        ret = [corrected |-> <<"H", "e", "l", "l", "o", " ">> \o Earth,
               count |-> 1, panicked |-> FALSE]

\* C12 amended: "world" starts at offset 6; the edit {offset 6, length 5,
\* "earth"} gives "Hello earth" with appliedCount 1, and the edit at offset 7
\* ends past the text (7+5 > 11) and is skipped: "Hello world", appliedCount 0.
C12_HelloEarthAtSix ==
    called =>
        /\ arg = HelloEdit(6) =>
               ret = [corrected |-> <<"H", "e", "l", "l", "o", " ">> \o Earth,
                      count |-> 1, panicked |-> FALSE]
        /\ arg = HelloEdit(7) =>
               ret = [corrected |-> HelloWorld, count |-> 0, panicked |-> FALSE]

C12_Witness ==
    /\ called
    /\ arg = HelloEdit(6)
    /\ ret.count = 1

----------------------------------------------------------------------------
(* More claims about segmentation *)

HasLongRun(text) ==
    \E i \in 1..(Len(text) - 2) : text[i] = NL /\ text[i + 1] = NL /\ text[i + 2] = NL

\* C13: no emitted chapter artifact contains a run of three or more newlines,
\* whatever the pages are.
C13_ArtifactsNormalized ==
    \A i \in 1..Len(chapterFiles) : ~HasLongRun(chapterFiles[i].text)

\* C16: a failed write of a chapter artifact does not abort the run: only a
\* start-up failure (output directory, input directory) does, so after a failed
\* write the remaining pages are still consumed and the combined file written.
C16_WriteFailureNotFatal ==
    pc = "aborted" => ~writeFailed

\* the appends of the pages at the arrival positions ps, concatenated
AppendsAt(ps) == ConcatAll([q \in 1..Len(ps) |-> AppendOf[arrived[ps[q]]]])

\* a marker page is nowhere in ps but at its head
MarkerOnlyFirst(ps) == \A q \in 2..Len(ps) : ~MarkerOf[arrived[ps[q]]]

\* C18: a marker page closes and emits the accumulated buffer (nothing is
\* emitted and no ordinal is taken when the buffer is empty) before it is
\* appended, so it is the first page of the next document; a non-marker page
\* emits nothing and is appended.  So every document but possibly the first
\* begins with a marker page and none holds a marker page anywhere else.
C18_BoundaryBeforeAppend ==
    /\ OrdinalsInEmissionOrder
    /\ \A i \in 1..Len(chapterFiles) :
           LET d == chapterFiles[i]
           IN  /\ Len(d.pages) >= 1
               /\ d.buffer = AppendsAt(d.pages)
               /\ MarkerOnlyFirst(d.pages)
               /\ i > 1 => MarkerOf[arrived[Head(d.pages)]]
    /\ currentChapter = AppendsAt(bufPages)
    /\ MarkerOnlyFirst(bufPages)
    /\ (chapterFiles # <<>> /\ bufPages # <<>>) => MarkerOf[arrived[Head(bufPages)]]
    \* while pages arrive, the documents emitted are one for every marker page
    \* that found a non-empty buffer, that is every marker page but a first page
    /\ pc \in {"crop", "left", "right"} =>
           Len(chapterFiles) = Cardinality(MarkerPositions \ {1})

C18_Witness ==
    /\ Flushed
    /\ Len(chapterFiles) = 2
    /\ ~MarkerOf[arrived[1]]
    /\ Len(chapterFiles[2].pages) = 2
    /\ MarkerOf[arrived[Head(chapterFiles[2].pages)]]

----------------------------------------------------------------------------
(* Termination of cleanText *)

\* C20: cleanText terminates on every input: every iteration of its loop
\* makes the text strictly shorter, and the return statement is reached.
C20_Terminates ==
    /\ [][(~called /\ ret' # ret) => Len(ret') < Len(ret)]_vars
    /\ <>called

\* an input with a run of five or more newlines has returned after more than
\* one iteration
C20_Witness ==
    /\ called
    /\ LongestRun(arg) >= 5
    /\ cleanIteration(arg) # ret
    /\ ret = cleanText(arg)

----------------------------------------------------------------------------
(* Order of application *)

\* the edits of ms whose offset is in offs, highest offset first, edits with
\* the same offset in the order they have in ms
RECURSIVE StableDescendingOver(_, _)
StableDescendingOver(ms, offs) ==
    IF offs = {} THEN <<>>
    ELSE LET top == SetMax(offs)
         IN  SelectSeq(ms, LAMBDA m : m.offset = top)
                 \o StableDescendingOver(ms, offs \ {top})

StableDescending(ms) ==
    StableDescendingOver(ms, {ms[i].offset : i \in 1..Len(ms)})

\* C19: the applier applies the edits in descending order of offset, edits
\* with equal offsets in the order of the service response: its result is
\* the result of applying the stably sorted list.
C19_AppliedInStableOrder ==
    called =>
        ret = applyMatches([corrected |-> arg.text, count |-> 0,
                            panicked |-> FALSE],
                           StableDescending(arg.matches))

----------------------------------------------------------------------------
(* Claims about the correction run *)

ProbeOk == probe.sent /\ ~probe.failed /\ probe.status = 200

\* C14: the probe comes before any chapter is read or submitted, and when it
\* fails (request error or a status other than 200) the run ends with no
\* chapter taken, nothing submitted, and the directory as it was.
C14_ProbeGatesCorrection ==
    /\ (cpc # "probe") = probe.sent
    /\ (log # <<>> \/ files # <<>> \/ dir # dir0) => ProbeOk
    /\ (probe.sent /\ ~ProbeOk) =>
          /\ cpc = "skipped"
          /\ log = <<>>
          /\ files = <<>>
          /\ dir = dir0

\* the service answered the probe with a status other than 200 while chapter
\* files were waiting
C14_Witness ==
    /\ cpc = "skipped"
    /\ ~probe.failed
    /\ probe.status # 200
    /\ Len(Glob(dir0)) >= 2

\* the file written for the chapter of log entry e is as it was at the start
ArtifactUntouched(e) ==
    LET out == outputFile(e.file)
    IN  /\ (out \in DOMAIN dir) = (out \in DOMAIN dir0)
        /\ out \in DOMAIN dir => dir[out] = dir0[out]

\* C15: a failure on one chapter never ends the batch: the run ends only
\* when every file of the sorted list was taken, the files are taken in
\* sorted order, and a chapter whose steps succeeded has its corrected
\* artifact.
C15_FailureDoesNotAbortBatch ==
    /\ [i \in 1..Len(log) |-> log[i].file] = SubSeq(files, 1, Len(log))
    /\ \A i \in 1..(Len(files) - 1) : StringLess(files[i], files[i + 1])
    /\ cpc \in {"done", "crashed"} => Len(log) = Len(files)
    /\ \A i \in 1..Len(log) :
          log[i].outcome = "written" =>
              /\ outputFile(log[i].file) \in DOMAIN dir
              /\ dir[outputFile(log[i].file)] = log[i].corrected

\* the edits of a response that have a candidate and a span inside the text
Applicable(text, ms) == {k \in 1..Len(ms) : InRange(text, ms[k])}

\* C17: a failed request to the service and a successful one with nothing to
\* apply are told apart: the first gives an error and no corrected artifact,
\* the second gives no error, count 0 and the text unchanged, and the text
\* is written as the corrected artifact (unless the write itself fails).
C17_FailureDistinctFromNoEdits ==
    \A i \in 1..Len(log) :
        LET e == log[i]
        IN  e.outcome # "unreadable" =>
              /\ responseError(e.response) =>
                    /\ e.err
                    /\ e.outcome = "service"
                    /\ ArtifactUntouched(e)
              /\ (~responseError(e.response)
                    /\ Applicable(e.content, e.response.matches) = {}) =>
                    /\ ~e.err
                    /\ e.outcome \in {"written", "unwritable"}
                    /\ e.count = 0
                    /\ e.corrected = e.content
                    /\ e.outcome = "written" =>
                          dir[outputFile(e.file)] = e.content

----------------------------------------------------------------------------
(* Failed reads during segmentation *)

\* the step handled a page side (or an image) that could not be read
ReadFailedStep ==
    /\ lastRead'.n = lastRead.n + 1
    /\ lastRead'.outcome # "page"

\* C21: a page side that cannot be read (the image cannot be cropped and
\* split, or the OCR of the side fails) leaves the open buffer, the counter
\* and the emitted documents as they were, triggers no boundary, and the run
\* goes on with the next side: after a failed left side the right side of
\* the same image, after a failed right side or a failed image the next image.
C21_FailedReadContributesNothing ==
    [][ReadFailedStep =>
          /\ UNCHANGED <<currentChapter, chapterCount, chapterFiles,
                         allCorrectedText, outputMD, arrived, bufPages,
                         writeFailed>>
          /\ lastRead'.outcome = "cropfail" =>
                /\ pc = "crop" /\ pc' = "crop"
                /\ filesLeft' = filesLeft - 1
          /\ lastRead'.outcome = "ocrfail" =>
                /\ filesLeft' = filesLeft
                /\ \/ pc = "left" /\ pc' = "right"
                   \/ pc = "right" /\ pc' = "crop"]_vars

\* three reads gave one page, the right side just added: an image could not
\* be split, the OCR of the left side of the next image failed, and the right
\* side of that image went into the buffer
C21_Witness ==
    /\ lastRead = [n |-> 3, outcome |-> "page"]
    /\ pc = "crop"
    /\ Len(arrived) = 1
    /\ bufPages = <<1>>

----------------------------------------------------------------------------
(* Input of the correction run *)

\* name is the name segmentation gives a chapter: chapter_, two digits, .md
IsChapterArtifact(name) ==
    \E d1 \in Digits, d2 \in Digits :
        name = PatternPrefix \o <<d1, d2>> \o PatternSuffix

IsCorrectedArtifact(name) == HasSuffix(name, CorrectedSuffix)

\* a run that ended leaves a directory that a later run starts in
LaterRunStartsHere == cpc = "done" /\ dir # dir0 /\ dir \in StartDirs

\* C22: the correction run selects and submits only the chapter files of
\* segmentation, never a corrected artifact of an earlier run, so the
\* corrected artifacts in the directory are those of the chapters, one each,
\* however often the run is repeated.
C22_OnlySegmentationArtifactsSelected ==
    /\ \A i \in 1..Len(files) : IsChapterArtifact(files[i])
    /\ \A i \in 1..Len(log) : IsChapterArtifact(log[i].file)
    /\ {name \in DOMAIN dir : IsCorrectedArtifact(name)}
          \subseteq {outputFile(name) : name \in
                        {c \in DOMAIN dir0 : IsChapterArtifact(c)}}

====
